---- MODULE Spec2Model ----
(***************************************************************************)
(* Model of tools/run_danesfield.py: the checkpointed step runner          *)
(* (run_step), the input collator (collate_input_paths,                    *)
(* ensure_complete_modality and the pruning loop of main) and the pipeline *)
(* driver (main).                                                          *)
(*                                                                         *)
(* The file system is a set of paths.  A path is a record [dir, name]      *)
(* whose name is the sequence of the dot-separated components of the base  *)
(* name, so that "a.exitstatus.3" is <<"a", "exitstatus", "3">>.  A step   *)
(* name is such a sequence too.                                            *)
(***************************************************************************)
EXTENDS Integers, Sequences, FiniteSets, TLC

VARIABLES
    files,        \* the regular files that exist (step logs and markers)
    dirs,         \* the directories that exist
    clock,        \* datetime.now().timestamp(), in whole seconds
    status,       \* the driver process: "none", "running", or how it ended
    inv,          \* number of driver invocations started so far
    args,         \* command-line flags of the current invocation
    cfg,          \* the configuration file and the imagery on disk
    mpc,          \* position of main
    loopi,        \* index of the current fan-out loop of main
    working_dir,  \* main's working_dir
    collection,   \* main's collection_id_to_files (an ordered dict)
    rs,           \* arguments of the active run_step call
    rpc,          \* position inside run_step
    globbed,      \* result of glob.glob still to be removed
    child,        \* the child process: "none" or "running"
    returncode,   \* proc.returncode
    ret,          \* value returned by the last run_step call
    launched,     \* the Popen calls observed since the observer was reset
    mkdirs,       \* the directories created since the observer was reset
    doneBefore    \* stages that exited 0 in an earlier invocation

vars == <<files, dirs, clock, status, inv, args, cfg, mpc, loopi, working_dir,
          collection, rs, rpc, globbed, child, returncode, ret, launched,
          mkdirs, doneBefore>>

fsVars == <<files, dirs>>
mainVars == <<clock, inv, args, cfg, mpc, loopi, working_dir, collection>>

(***************************************************************************)
(* Bounds                                                                  *)
(***************************************************************************)
MaxInvocations == 2
MaxClock == 1

\* exit codes a command may end with
ExitCodes == {0, 1, 3}

\* proc.returncode, or the value of run_step, while there is none (None)
NoCode == -1

(***************************************************************************)
(* Paths, markers, logs                                                    *)
(***************************************************************************)

\* '{}'.format(code) for the exit codes of the model
CodeStr(c) ==
    CASE c = 0 -> "0"
      [] c = 1 -> "1"
      [] c = 3 -> "3"

\* os.path.join(working_dir, '{}.log'.format(step_name))
step_log_fpath(d, n) == [dir |-> d, name |-> n \o <<"log">>]

\* a variant that ignores the exit code and always writes the ".0" marker
MarkerPath_AlwaysZero(d, n, c) == [dir |-> d, name |-> n \o <<"exitstatus", "0">>]

\* os.path.join(working_dir, '{}.exitstatus'.format(step_name)), with the
\* exit status appended: '{}.{}'.format(prefix, code)
MarkerPath(d, n, c) == [dir |-> d, name |-> n \o <<"exitstatus", CodeStr(c)>>]

\* fnmatch of a directory name used, unescaped, as a glob pattern: the
\* bracket expression [1] stands for the single character 1, so the pattern
\* "w[1]" selects the directory "w1" and not the directory "w[1]"
DirPatternMatches(pat, d) ==
    /\ d.sub = pat.sub
    /\ IF pat.root = "w[1]" THEN d.root = "w1" ELSE d.root = pat.root

\* glob.glob('{}.*'.format(step_returncode_fpath_prefix)): every file of a
\* directory selected by the pattern whose base name starts with
\* "<step_name>.exitstatus." ("*" also spans dots)
Glob(d, n, fs) ==
    {f \in fs : /\ DirPatternMatches(d, f.dir)
                /\ Len(f.name) >= Len(n) + 2
                /\ SubSeq(f.name, 1, Len(n) + 1) = n \o <<"exitstatus">>}

\* the exit-status markers of step (d, n) present in fs
MarkersOf(d, n, fs) == {c \in ExitCodes : MarkerPath(d, n, c) \in fs}

\* a variant that tests the prefix path, without the ".0"
hasSucceeded_NoSuffix(d, n, fs) == [dir |-> d, name |-> n \o <<"exitstatus">>] \in fs

\* os.path.isfile('{}.0'.format(step_returncode_fpath_prefix))
hasSucceeded(d, n, fs) == MarkerPath(d, n, 0) \in fs

(***************************************************************************)
(* run_step                                                                *)
(***************************************************************************)

\* rs while no call is active
NoCall ==
    [dir |-> [root |-> "", sub |-> ""], name |-> << >>,
     cmd |-> [tool |-> "", paths |-> << >>, infos |-> << >>],
     abort |-> TRUE, stage |-> << >>]

\* the driver process ends with exit(1) or an uncaught exception; the
\* position and the arguments of its last call stay visible
Halt(st) ==
    /\ status' = st
    /\ child' = "none"

\* entry of run_step(working_dir, step_name, command, abort_on_error)
EnterRunStep(d, n, cmd, abort, stage) ==
    /\ rs' = [dir |-> d, name |-> n, cmd |-> cmd, abort |-> abort, stage |-> stage]
    /\ rpc' = "check"
    /\ returncode' = NoCode
    /\ ret' = NoCode

\* if os.path.isfile('{}.0'.format(step_returncode_fpath_prefix)): return 0
RsCheck ==
    /\ status = "running" /\ rpc = "check"
    /\ IF hasSucceeded(rs.dir, rs.name, files)
       THEN /\ ret' = 0
            /\ rpc' = "ret"
       ELSE /\ rpc' = "rmlog"
            /\ UNCHANGED ret
    /\ UNCHANGED <<fsVars, mainVars, doneBefore, status, rs, globbed, child, returncode, launched, mkdirs>>

\* if os.path.isfile(step_log_fpath): os.remove(step_log_fpath); then the
\* glob is evaluated
RsRemoveLog ==
    /\ status = "running" /\ rpc = "rmlog"
    /\ files' = files \ {step_log_fpath(rs.dir, rs.name)}
    /\ globbed' = Glob(rs.dir, rs.name, files')
    /\ rpc' = "rmmarkers"
    /\ UNCHANGED <<dirs, mainVars, doneBefore, status, rs, child, returncode, ret,
                   launched, mkdirs>>

\* for f in glob.glob(...): os.remove(f)
RsRemoveMarker ==
    /\ status = "running" /\ rpc = "rmmarkers"
    /\ \E f \in globbed :
         /\ files' = files \ {f}
         /\ globbed' = globbed \ {f}
    /\ UNCHANGED <<dirs, mainVars, doneBefore, status, rs, rpc, child, returncode, ret, launched, mkdirs>>

\* if not os.path.isdir(working_dir): os.mkdir(working_dir)
RsMkdir ==
    /\ status = "running" /\ rpc = "rmmarkers" /\ globbed = {}
    /\ dirs' = dirs \cup {rs.dir}
    /\ mkdirs' = IF rs.dir \in dirs THEN mkdirs ELSE mkdirs \cup {rs.dir}
    /\ rpc' = "popen"
    /\ UNCHANGED <<files, mainVars, doneBefore, status, rs, globbed, child, returncode,
                   ret, launched>>

\* proc = subprocess.Popen(command, ...)
RsPopen ==
    /\ status = "running" /\ rpc = "popen"
    /\ child' = "running"
    /\ launched' = Append(launched, [dir |-> rs.dir, name |-> rs.name,
                                     cmd |-> rs.cmd, stage |-> rs.stage])
    /\ rpc' = "openlog"
    /\ UNCHANGED <<fsVars, mainVars, doneBefore, status, rs, globbed, returncode, ret, mkdirs>>

\* subprocess.Popen raises (the executable cannot be started): the
\* exception is not caught and ends the driver
RsPopenFails ==
    /\ status = "running" /\ rpc = "popen"
    /\ Halt("exc_popen")
    /\ UNCHANGED <<fsVars, mainVars, doneBefore, rs, rpc, globbed, returncode, ret,
                   launched, mkdirs>>

\* with open(step_log_fpath, 'w') as out_f: for line in proc.stdout: ...
RsWriteLog ==
    /\ status = "running" /\ rpc = "openlog"
    /\ files' = files \cup {step_log_fpath(rs.dir, rs.name)}
    /\ rpc' = "wait"
    /\ UNCHANGED <<dirs, mainVars, doneBefore, status, rs, globbed, child, returncode,
                   ret, launched, mkdirs>>

\* proc.wait(timeout=5) returns: the child has exited with code c
RsWait ==
    /\ status = "running" /\ rpc = "wait"
    /\ \E c \in ExitCodes : returncode' = c
    /\ child' = "none"
    /\ rpc' = "touch"
    /\ UNCHANGED <<fsVars, mainVars, doneBefore, status, rs, globbed, ret,
                   launched, mkdirs>>

\* proc.wait(timeout=5) raises TimeoutExpired, which nothing catches
RsWaitTimeout ==
    /\ status = "running" /\ rpc = "wait"
    /\ Halt("exc_timeout")
    /\ UNCHANGED <<fsVars, mainVars, doneBefore, rs, rpc, globbed, returncode, ret,
                   launched, mkdirs>>

\* Path('{}.{}'.format(step_returncode_fpath_prefix, proc.returncode)).touch()
RsTouch ==
    /\ status = "running" /\ rpc = "touch"
    /\ files' = files \cup {MarkerPath(rs.dir, rs.name, returncode)}
    /\ doneBefore' = IF returncode = 0 /\ rs.stage # << >>
                      THEN doneBefore \cup {rs.stage}
                      ELSE doneBefore
    /\ rpc' = "finish"
    /\ UNCHANGED <<dirs, mainVars, status, rs, globbed, child, returncode,
                   ret, launched, mkdirs>>

\* a variant that aborts whatever abort_on_error is
Aborts_Always(abort, code) == code # 0

\* a variant that aborts on exit code 1 only
Aborts_OnlyOne(abort, code) == abort /\ code = 1

\* the condition of the final if: abort_on_error and proc.returncode != 0
Aborts(abort, code) == abort /\ code # 0

\* if abort_on_error and proc.returncode != 0: exit(1)
RsAbort ==
    /\ status = "running" /\ rpc = "finish"
    /\ Aborts(rs.abort, returncode)
    /\ Halt("exit1")
    /\ UNCHANGED <<fsVars, mainVars, doneBefore, rs, rpc, globbed, returncode, ret,
                   launched, mkdirs>>

\* return proc.returncode
RsReturn ==
    /\ status = "running" /\ rpc = "finish"
    /\ ~Aborts(rs.abort, returncode)
    /\ ret' = returncode
    /\ rpc' = "ret"
    /\ UNCHANGED <<fsVars, mainVars, doneBefore, status, rs, globbed, child, returncode, launched, mkdirs>>

\* the driver process is killed from outside (or the machine goes down);
\* nothing of the process is left but the files
Crash ==
    /\ status = "running"
    /\ status' = "killed"
    /\ child' = "none"
    /\ rs' = NoCall
    /\ rpc' = "idle"
    /\ globbed' = {}
    /\ returncode' = NoCode
    /\ ret' = NoCode
    /\ mpc' = IF mpc = "caller" THEN "caller" ELSE "off"
    /\ loopi' = 0
    /\ working_dir' = ""
    /\ collection' = << >>
    /\ UNCHANGED <<fsVars, clock, inv, args, cfg, doneBefore, launched, mkdirs>>

RunStepNext ==
    \/ RsCheck
    \/ RsRemoveLog
    \/ RsRemoveMarker
    \/ RsMkdir
    \/ RsPopen
    \/ RsPopenFails
    \/ RsWriteLog
    \/ RsWait
    \/ RsWaitTimeout
    \/ RsTouch
    \/ RsAbort
    \/ RsReturn
    \/ Crash

(***************************************************************************)
(* Input collation: collate_input_paths, ensure_complete_modality and the  *)
(* pruning loop of main                                                    *)
(***************************************************************************)

\* a directory is [root, sub]: os.path.join(root, sub), sub "" for root itself
Dir(root, sub) == [root |-> root, sub |-> sub]

\* base names of the imagery, up to their first dot
A_PAN == "12ABC34567890-P1BS-123456789012_01_P001"
A_MSI == "12ABC34567890-M1BS-123456789012_01_P001"
A_SWIR == "12ABC34567890-A1BS-123456789012_01_P001"
B_PAN == "12ABC34567891-P1BS-123456789012_01_P002"
B_MSI == "12ABC34567891-M1BS-123456789012_01_P002"
C_PAN == "13DEF00000001-P1BS-000000000001_01_P001"
D_PAN == "14GHI00000002-P1BS-000000000002_01_P001"
D_MSI == "14GHI00000002-M1BS-000000000002_01_P001"
A_MSI_LC == "12abc34567890-m1bs-123456789012_01_p001"
GRA_A_PAN == "GRA_12ABC34567890-P1BS-123456789012_01_P001"
GRA_A_MSI == "GRA_12ABC34567890-M1BS-123456789012_01_P001"
GRA_B_PAN == "GRA_12ABC34567891-P1BS-123456789012_01_P002"
GRA_B_MSI == "GRA_12ABC34567891-M1BS-123456789012_01_P002"

KEY_A == "12ABC34567890-123456789012_01_P001"
KEY_B == "12ABC34567891-123456789012_01_P002"
KEY_C == "13DEF00000001-000000000001_01_P001"
KEY_D == "14GHI00000002-000000000002_01_P001"

NoMatch == [key |-> "", modality |-> ""]

\* the groups prefix, modality and trail of input_re found in one upper-cased
\* piece of a base name: key is '%s-%s' % (prefix, trail)
PieceGroups(piece) ==
    CASE piece \in {A_PAN, GRA_A_PAN} -> [key |-> KEY_A, modality |-> "P1BS"]
      [] piece \in {A_MSI, GRA_A_MSI} -> [key |-> KEY_A, modality |-> "M1BS"]
      [] piece = A_SWIR -> [key |-> KEY_A, modality |-> "A1BS"]
      [] piece \in {B_PAN, GRA_B_PAN} -> [key |-> KEY_B, modality |-> "P1BS"]
      [] piece \in {B_MSI, GRA_B_MSI} -> [key |-> KEY_B, modality |-> "M1BS"]
      [] piece = C_PAN -> [key |-> KEY_C, modality |-> "P1BS"]
      [] piece = D_PAN -> [key |-> KEY_D, modality |-> "P1BS"]
      [] piece = D_MSI -> [key |-> KEY_D, modality |-> "M1BS"]
      [] OTHER -> NoMatch

\* str.upper() of a piece of a base name
Upper(piece) ==
    CASE piece \in {"NTF", "ntf"} -> "NTF"
      [] piece \in {"TAR", "tar"} -> "TAR"
      [] piece \in {"RPC", "rpc"} -> "RPC"
      [] piece = "txt" -> "TXT"
      [] piece = "xml" -> "XML"
      [] piece = "up" -> "UP"
      [] piece = A_MSI_LC -> A_MSI
      [] OTHER -> piece

\* group gra of input_re: the upper-cased base name starts with GRA_
HasGra(name) ==
    Upper(name[1]) \in {GRA_A_PAN, GRA_A_MSI, GRA_B_PAN, GRA_B_MSI}

\* a variant of IndexOf that never finds the key
IndexOf_Never(coll, key) == 0

\* a variant of RoleOf that takes every .RPC file for an rpc file
RoleOf_AnyRpc(m) ==
    IF m.ext = "RPC" THEN "rpc"
    ELSE IF m.ext = "NTF" THEN "image"
    ELSE IF m.ext = "TAR" THEN "info"
    ELSE "none"

\* input_re.match(os.path.basename(path).upper()): the leading ".*" is
\* greedy, so prefix-modality-trail is the last occurrence that still leaves
\* a dot and an extension behind it; ext is the last piece
MatchIndex(name) ==
    LET hits == {j \in 1..(Len(name) - 1) :
                    PieceGroups(Upper(name[j])) # NoMatch}
    IN  IF hits = {} THEN 0 ELSE CHOOSE j \in hits : \A k \in hits : k <= j

input_re_match(name) ==
    IF MatchIndex(name) = 0
    THEN [matched |-> FALSE, gra |-> FALSE, key |-> "", modality |-> "", ext |-> ""]
    ELSE [matched |-> TRUE,
          gra |-> HasGra(name),
          key |-> PieceGroups(Upper(name[MatchIndex(name)])).key,
          modality |-> PieceGroups(Upper(name[MatchIndex(name)])).modality,
          ext |-> Upper(name[Len(name)])]

\* modality_map
modality_map(token) ==
    CASE token = "P1BS" -> "pan"
      [] token = "M1BS" -> "msi"
      [] token = "A1BS" -> "swir"

\* the role the if/elif chain of collate_input_paths gives a matching file
RoleOf(m) ==
    IF m.gra /\ m.ext = "RPC" THEN "rpc"
    ELSE IF m.ext = "NTF" THEN "image"
    ELSE IF m.ext = "TAR" THEN "info"
    ELSE "none"

\* position of key in the ordered dict, 0 when it is not a key
IndexOf(coll, key) ==
    LET hits == {i \in 1..Len(coll) : coll[i].key = key}
    IN  IF hits = {} THEN 0 ELSE CHOOSE i \in hits : TRUE

\* out_collection[key][modality][role] = path, creating what is missing
PutRole(bundle, role, path) ==
    IF role = "none" THEN bundle
    ELSE [r \in DOMAIN bundle \cup {role} |-> IF r = role THEN path ELSE bundle[r]]

PutFile(rec, modality, role, path) ==
    LET bundle == IF modality \in DOMAIN rec THEN rec[modality] ELSE << >>
    IN  [m \in DOMAIN rec \cup {modality} |->
            IF m = modality THEN PutRole(bundle, role, path) ELSE rec[m]]

\* one iteration of the loop of collate_input_paths
CollateOne(coll, path) ==
    LET m == input_re_match(path.name)
        i == IndexOf(coll, m.key)
    IN  IF ~m.matched THEN coll
        ELSE IF i = 0
        THEN Append(coll, [key |-> m.key,
                           files |-> PutFile(<< >>, modality_map(m.modality),
                                             RoleOf(m), path)])
        ELSE [coll EXCEPT ![i].files =
                 PutFile(@, modality_map(m.modality), RoleOf(m), path)]

RECURSIVE collate_from(_, _)
collate_from(coll, paths) ==
    IF paths = << >> THEN coll
    ELSE collate_from(CollateOne(coll, Head(paths)), Tail(paths))

collate_input_paths(paths) == collate_from(<< >>, paths)

\* a variant that never asks for the rpc role
ensure_complete_modality_NoRpc(modality_dict, require_rpc) ==
    \A key \in {"image", "info"} : key \in DOMAIN modality_dict

\* a variant that asks for one of the roles only
ensure_complete_modality_Any(modality_dict, require_rpc) ==
    \E key \in {"image", "info"} \cup (IF require_rpc THEN {"rpc"} ELSE {}) :
        key \in DOMAIN modality_dict

\* ensure_complete_modality(modality_dict, require_rpc)
ensure_complete_modality(modality_dict, require_rpc) ==
    \A key \in {"image", "info"} \cup (IF require_rpc THEN {"rpc"} ELSE {}) :
        key \in DOMAIN modality_dict

\* the condition under which the pruning loop of main keeps a record
IsComplete(rec, use_rpcs) ==
    /\ "msi" \in DOMAIN rec
    /\ ensure_complete_modality(rec["msi"], use_rpcs)
    /\ "pan" \in DOMAIN rec
    /\ ensure_complete_modality(rec["pan"], use_rpcs)

\* incomplete_ids, then del collection_id_to_files[idx] for each
RECURSIVE Prune(_, _)
Prune(coll, use_rpcs) ==
    IF coll = << >> THEN << >>
    ELSE IF IsComplete(Head(coll).files, use_rpcs)
         THEN <<Head(coll)>> \o Prune(Tail(coll), use_rpcs)
         ELSE Prune(Tail(coll), use_rpcs)

(***************************************************************************)
(* run_step called directly, with any arguments                            *)
(***************************************************************************)

\* working directories and step names the calls are drawn from
CallTargets ==
    {<<Dir("w", ""), <<"a">>>>,
     <<Dir("w", ""), <<"a", "exitstatus", "x">>>>,
     <<Dir("w[1]", ""), <<"a">>>>}
Commands ==
    {[tool |-> "cmd1", paths |-> << >>, infos |-> << >>],
     [tool |-> "cmd2", paths |-> << >>, infos |-> << >>]}

NoCfg == [work_dir |-> "", aoi_config |-> FALSE, utm |-> FALSE,
          rpc_dir |-> FALSE, imagery |-> [img |-> << >>, rpc |-> << >>],
          inside |-> FALSE]
NoArgs == [vissat |-> FALSE, run_metrics |-> FALSE]

InitStep ==
    /\ files = {}
    /\ dirs = {}
    /\ clock = 0
    /\ status = "none"
    /\ inv = 0
    /\ args = NoArgs
    /\ cfg = NoCfg
    /\ mpc = "caller"
    /\ loopi = 0
    /\ working_dir = ""
    /\ collection = <<>>
    /\ rs = NoCall
    /\ rpc = "idle"
    /\ globbed = {}
    /\ child = "none"
    /\ returncode = NoCode
    /\ ret = NoCode
    /\ launched = <<>>
    /\ mkdirs = {}
    /\ doneBefore = {}

\* a caller (a fresh process, or the one whose previous call returned)
\* calls run_step
StepCall ==
    /\ mpc = "caller"
    /\ status # "running" \/ rpc = "ret"
    /\ \E t \in CallTargets, cmd \in Commands, abort \in BOOLEAN :
         EnterRunStep(t[1], t[2], cmd, abort, <<>>)
    /\ status' = "running"
    /\ launched' = <<>>
    /\ mkdirs' = {}
    /\ UNCHANGED <<fsVars, mainVars, doneBefore, globbed, child>>

NextStep ==
    \/ StepCall
    \/ RunStepNext

SpecStep == InitStep /\ [][NextStep]_vars

(***************************************************************************)
(* The configuration and the imagery of a run                              *)
(***************************************************************************)

ImageryDir == Dir("imagery", "")
ImagerySub == Dir("imagery", "sub")
RpcDir == Dir("rpcs", "")
File(d, name) == [dir |-> d, name |-> name]

\* two acquisitions with pan and msi image and info files, and their RPC files
ImgFull ==
    [img |-> <<File(ImageryDir, <<A_PAN, "NTF">>), File(ImageryDir, <<A_PAN, "TAR">>),
               File(ImageryDir, <<A_MSI, "NTF">>), File(ImageryDir, <<A_MSI, "TAR">>),
               File(ImageryDir, <<B_MSI, "NTF">>), File(ImageryDir, <<B_MSI, "TAR">>),
               File(ImageryDir, <<B_PAN, "NTF">>), File(ImageryDir, <<B_PAN, "TAR">>)>>,
     rpc |-> <<File(RpcDir, <<GRA_A_PAN, "up", "rpc">>),
               File(RpcDir, <<GRA_A_MSI, "up", "rpc">>),
               File(RpcDir, <<GRA_B_PAN, "up", "rpc">>),
               File(RpcDir, <<GRA_B_MSI, "up", "rpc">>)>>]

\* A is whole (and has a swir image without info; its pan info file lies in
\* a subdirectory and its msi info file has a lower-case name), B lacks the
\* msi RPC file, C has a pan bundle only, D has an msi image without info
ImgPartial ==
    [img |-> <<File(ImageryDir, <<"README", "txt">>),
               File(ImageryDir, <<C_PAN, "NTF">>), File(ImageryDir, <<C_PAN, "TAR">>),
               File(ImageryDir, <<A_PAN, "NTF">>),
               File(ImagerySub, <<A_PAN, "TAR">>),
               File(ImageryDir, <<A_MSI, "NTF">>),
               File(ImageryDir, <<A_MSI_LC, "tar">>),
               File(ImageryDir, <<A_SWIR, "NTF">>),
               File(ImageryDir, <<B_PAN, "NTF">>), File(ImageryDir, <<B_PAN, "TAR">>),
               File(ImageryDir, <<B_MSI, "NTF">>), File(ImageryDir, <<B_MSI, "TAR">>),
               File(ImageryDir, <<D_PAN, "NTF">>), File(ImageryDir, <<D_PAN, "TAR">>),
               File(ImageryDir, <<D_MSI, "NTF">>)>>,
     rpc |-> <<File(RpcDir, <<GRA_A_PAN, "up", "rpc">>),
               File(RpcDir, <<GRA_A_MSI, "up", "rpc">>),
               File(RpcDir, <<GRA_B_PAN, "up", "rpc">>)>>]

\* nothing complete: C has a pan bundle only; the files of D have an
\* extension that gives no role, or .rpc without the GRA_ marker; two names
\* do not match at all
ImgNone ==
    [img |-> <<File(ImageryDir, <<"README", "txt">>),
               File(ImageryDir, <<B_PAN>>),
               File(ImageryDir, <<C_PAN, "NTF">>),
               File(ImageryDir, <<C_PAN, "TAR">>),
               File(ImageryDir, <<D_MSI, "rpc">>),
               File(ImageryDir, <<D_PAN, "ntf", "xml">>)>>,
     rpc |-> << >>]

\* the pan and msi image and info files of one acquisition
ImgOne ==
    [img |-> <<File(ImageryDir, <<A_PAN, "NTF">>),
               File(ImageryDir, <<A_MSI, "NTF">>),
               File(ImageryDir, <<A_PAN, "TAR">>),
               File(ImageryDir, <<A_MSI, "TAR">>)>>,
     rpc |-> << >>]

\* the msi image of B is named <A_MSI>.exitstatus.<B_MSI>.NTF
ImgCross ==
    [img |-> <<File(ImageryDir, <<A_MSI, "exitstatus", B_MSI, "NTF">>),
               File(ImageryDir, <<B_MSI, "TAR">>),
               File(ImageryDir, <<B_PAN, "NTF">>), File(ImageryDir, <<B_PAN, "TAR">>),
               File(ImageryDir, <<A_PAN, "NTF">>), File(ImageryDir, <<A_PAN, "TAR">>),
               File(ImageryDir, <<A_MSI, "NTF">>), File(ImageryDir, <<A_MSI, "TAR">>)>>,
     rpc |-> << >>]

\* config['paths'].get('work_dir'), whether config['paths'] has aoi_config
\* and rpc_dir and config['aoi'] has utm, the listings os.walk gives, and
\* whether the working directory lies inside the imagery directory
Config(wd, aoi, utm, rpcdir, img, inside) ==
    [work_dir |-> wd, aoi_config |-> aoi, utm |-> utm, rpc_dir |-> rpcdir,
     imagery |-> img, inside |-> inside]

Configs ==
    {Config("wd", TRUE, TRUE, FALSE, ImgFull, FALSE),
     Config("", TRUE, TRUE, FALSE, ImgNone, FALSE),
     Config("wd", FALSE, TRUE, FALSE, ImgFull, FALSE),
     Config("wd", TRUE, FALSE, FALSE, ImgFull, FALSE),
     Config("wd", TRUE, TRUE, TRUE, ImgFull, FALSE),
     Config("wd", TRUE, TRUE, FALSE, ImgPartial, FALSE),
     Config("wd", TRUE, TRUE, TRUE, ImgPartial, FALSE),
     Config("wd", TRUE, TRUE, FALSE, ImgNone, FALSE),
     Config("wd", TRUE, TRUE, FALSE, ImgCross, FALSE),
     Config("wd", TRUE, TRUE, FALSE, ImgOne, FALSE),
     Config("wd", TRUE, TRUE, FALSE, ImgFull, TRUE)}

\* args.vissat and args.run_metrics
Flags == [vissat : BOOLEAN, run_metrics : BOOLEAN]

(***************************************************************************)
(* main                                                                    *)
(***************************************************************************)

\* a variant with texture mapping ahead of crop-and-pansharpen
Labels_TextureFirst ==
    <<"create_working_dir", "vissat_config", "VisSat", "ply2txt", "txt2las",
      "collate", "prune", "generate-dsm", "fit-dtm", "orthorectify",
      "compute-ndvi", "get-road-vector", "segment-by-height",
      "material-classification", "roof-geon-extraction", "texture-mapping",
      "crop-and-pansharpen", "buildings-to-dsm_DSM", "buildings-to-dsm_CLS",
      "run-metrics", "end">>

\* a variant that prunes after the DSM has been rendered
Labels_PruneLate ==
    <<"create_working_dir", "vissat_config", "VisSat", "ply2txt", "txt2las",
      "collate", "generate-dsm", "prune", "fit-dtm", "orthorectify",
      "compute-ndvi", "get-road-vector", "segment-by-height",
      "material-classification", "roof-geon-extraction", "crop-and-pansharpen",
      "texture-mapping", "buildings-to-dsm_DSM", "buildings-to-dsm_CLS",
      "run-metrics", "end">>

\* a variant of the stage order with get-road-vector ahead of compute-ndvi
Labels_RoadFirst ==
    <<"create_working_dir", "vissat_config", "VisSat", "ply2txt", "txt2las",
      "collate", "prune", "generate-dsm", "fit-dtm", "orthorectify",
      "get-road-vector", "compute-ndvi", "segment-by-height",
      "material-classification", "roof-geon-extraction", "crop-and-pansharpen",
      "texture-mapping", "buildings-to-dsm_DSM", "buildings-to-dsm_CLS",
      "run-metrics", "end">>

\* the statements of main, in program order
Labels ==
    <<"create_working_dir", "vissat_config", "VisSat", "ply2txt", "txt2las",
      "collate", "prune", "generate-dsm", "fit-dtm", "orthorectify",
      "compute-ndvi", "get-road-vector", "segment-by-height",
      "material-classification", "roof-geon-extraction", "crop-and-pansharpen",
      "texture-mapping", "buildings-to-dsm_DSM", "buildings-to-dsm_CLS",
      "run-metrics", "end">>

LabelIndex(l) == CHOOSE i \in 1..Len(Labels) : Labels[i] = l

\* the statements that are a call of run_step
StageLabels ==
    {"VisSat", "ply2txt", "txt2las", "generate-dsm", "fit-dtm", "orthorectify",
     "compute-ndvi", "get-road-vector", "segment-by-height",
     "material-classification", "roof-geon-extraction", "crop-and-pansharpen",
     "texture-mapping", "buildings-to-dsm_DSM", "buildings-to-dsm_CLS",
     "run-metrics"}

\* the calls inside "for collection_id, files in collection_id_to_files.items()"
LoopLabels == {"orthorectify", "crop-and-pansharpen"}

\* a variant that enters the VisSat block whatever the flag
NextLabel_AlwaysVisSat(l, a) ==
    IF l = "buildings-to-dsm_CLS" /\ ~a.run_metrics THEN "end"
    ELSE Labels[LabelIndex(l) + 1]

\* a variant that enters the metrics block whatever the flag
NextLabel_AlwaysMetrics(l, a) ==
    IF l = "create_working_dir" /\ ~a.vissat THEN "collate"
    ELSE Labels[LabelIndex(l) + 1]

\* the statement after l: "if args.vissat" and "if(args.run_metrics)" skip
\* their blocks
NextLabel(l, a) ==
    IF l = "create_working_dir" /\ ~a.vissat THEN "collate"
    ELSE IF l = "buildings-to-dsm_CLS" /\ ~a.run_metrics THEN "end"
    ELSE Labels[LabelIndex(l) + 1]

\* 'danesfield-' + date_str.split('.')[0]
DefaultWorkingDir(t) ==
    CASE t = 0 -> "danesfield-0"
      [] t = 1 -> "danesfield-1"
      [] t = 2 -> "danesfield-2"
      [] t = 3 -> "danesfield-3"
      [] OTHER -> "danesfield-4"

\* data['work_dir'] of the VisSat AOI configuration
vissat_workdir == Dir("vissat", "")

\* the working_dir argument of the run_step call at l
StageDir(l, wd) ==
    CASE l \in {"VisSat", "ply2txt", "txt2las"} -> vissat_workdir
      [] l \in {"buildings-to-dsm_DSM", "buildings-to-dsm_CLS"} -> Dir(wd, "buildings-to-dsm")
      [] l = "run-metrics" -> Dir(wd, "run_metrics")
      [] OTHER -> Dir(wd, l)

\* os.path.splitext(os.path.split(msi_ntf_fpath)[1])[0]
msi_fname(path) == SubSeq(path.name, 1, Len(path.name) - 1)

\* the step_name argument of the run_step call at l, for record rec
StepName(l, rec) ==
    CASE l = "orthorectify" -> <<"orthorectify-">> \o msi_fname(rec.files["msi"]["image"])
      [] l = "crop-and-pansharpen" -> <<"crop-and-pansharpen-", rec.key>>
      [] OTHER -> <<l>>

\* the stage instance: the statement, and the record of a fan-out stage
StageId(l, rec) ==
    IF l \in LoopLabels THEN <<l, rec.key>> ELSE <<l>>

\* os.path.join(orthorectify_outdir, '{}_ortho.tif'.format(msi_fname))
msi_ortho_img_fpath(wd, rec) ==
    File(Dir(wd, "orthorectify"),
         msi_fname(rec.files["msi"]["image"]) \o <<"_ortho", "tif">>)

\* files[modality].get('rpc', None), as the list of the arguments it adds
RpcArgs(rec, modality) ==
    IF "rpc" \in DOMAIN rec.files[modality]
    THEN <<rec.files[modality]["rpc"]>> ELSE << >>

\* a variant that lists the info paths in reverse order
MsiPaths_InfoReversed(coll, role) ==
    [i \in 1..Len(coll) |->
        IF role = "info" THEN coll[Len(coll) + 1 - i].files["msi"][role]
        ELSE coll[i].files["msi"][role]]

\* [files['msi'][role] for files in coll.values() if role in files['msi']]
RECURSIVE MsiPaths(_, _)
MsiPaths(coll, role) ==
    IF coll = << >> THEN << >>
    ELSE (IF "msi" \in DOMAIN Head(coll).files
             /\ role \in DOMAIN Head(coll).files["msi"]
          THEN <<Head(coll).files["msi"][role]>> ELSE << >>)
         \o MsiPaths(Tail(coll), role)

\* the arguments of the command at l that name files of the records
StageCmd(l, wd, coll, rec) ==
    CASE l = "orthorectify" ->
           [tool |-> l,
            paths |-> <<rec.files["msi"]["image"], msi_ortho_img_fpath(wd, rec)>>,
            infos |-> RpcArgs(rec, "msi")]
      [] l = "compute-ndvi" ->
           [tool |-> l, paths |-> MsiPaths(coll, "ortho_img_fpath"), infos |-> << >>]
      [] l = "material-classification" ->
           [tool |-> l, paths |-> MsiPaths(coll, "ortho_img_fpath"),
            infos |-> MsiPaths(coll, "info")]
      [] l = "crop-and-pansharpen" ->
           [tool |-> l,
            paths |-> <<rec.files["pan"]["image"], rec.files["msi"]["image"]>>,
            infos |-> RpcArgs(rec, "pan") \o RpcArgs(rec, "msi")]
      [] OTHER -> [tool |-> l, paths |-> << >>, infos |-> << >>]

NoRecord == [key |-> "", files |-> << >>]

\* the record of the current iteration of a fan-out loop
CurrentRecord ==
    IF mpc \in LoopLabels /\ loopi \in 1..Len(collection)
    THEN collection[loopi] ELSE NoRecord

\* the runs explored: every flag combination on the two-acquisition
\* imagery without RPC directory and with a configured work_dir, the VisSat
\* flag alone where a VisSat key is missing, and no flag on the other
\* configurations
Paired(c, a) ==
    IF ~c.aoi_config \/ ~c.utm THEN a.vissat /\ ~a.run_metrics
    ELSE IF c.imagery = ImgFull /\ ~c.rpc_dir /\ ~c.inside THEN TRUE
    ELSE ~a.vissat /\ ~a.run_metrics

Init ==
    /\ files = {}
    /\ dirs = {ImageryDir, ImagerySub, RpcDir, vissat_workdir}
    /\ clock = 0
    /\ status = "none"
    /\ inv = 0
    /\ cfg \in Configs
    /\ args \in Flags
    /\ Paired(cfg, args)
    /\ mpc = "off"
    /\ loopi = 0
    /\ working_dir = ""
    /\ collection = << >>
    /\ rs = NoCall
    /\ rpc = "idle"
    /\ globbed = {}
    /\ child = "none"
    /\ returncode = NoCode
    /\ ret = NoCode
    /\ launched = << >>
    /\ mkdirs = {}
    /\ doneBefore = {}

\* python run_danesfield.py ini_file [--vissat] [--run_metrics]
Invoke ==
    /\ mpc # "caller"
    /\ status # "running"
    /\ inv < MaxInvocations
    /\ status' = "running"
    /\ inv' = inv + 1
    /\ mpc' = "create_working_dir"
    /\ loopi' = 0
    /\ working_dir' = ""
    /\ collection' = << >>
    /\ rs' = NoCall
    /\ rpc' = "idle"
    /\ globbed' = {}
    /\ returncode' = NoCode
    /\ ret' = NoCode
    /\ launched' = << >>
    /\ mkdirs' = {}
    /\ UNCHANGED <<fsVars, clock, args, cfg, child, doneBefore>>

\* time passes between two invocations (the clock is read only to name the
\* default working directory)
Tick ==
    /\ mpc # "caller"
    /\ status # "running"
    /\ cfg.work_dir = ""
    /\ clock < MaxClock
    /\ clock' = clock + 1
    /\ UNCHANGED <<fsVars, status, inv, args, cfg, mpc, loopi, working_dir,
                   collection, rs, rpc, globbed, child, returncode, ret,
                   launched, mkdirs, doneBefore>>

\* working_dir = create_working_dir(config['paths'].get('work_dir'),
\*                                  config['paths']['imagery_dir'])
create_working_dir ==
    /\ status = "running" /\ mpc = "create_working_dir"
    /\ LET wd == IF cfg.work_dir = "" THEN DefaultWorkingDir(clock)
                 ELSE cfg.work_dir
       IN  /\ dirs' = dirs \cup {Dir(wd, "")}
           /\ mkdirs' = IF Dir(wd, "") \in dirs THEN mkdirs
                        ELSE mkdirs \cup {Dir(wd, "")}
           /\ IF cfg.inside
              THEN /\ Halt("exc_valueerror")
                   /\ UNCHANGED <<working_dir, mpc>>
              ELSE /\ working_dir' = wd
                   /\ mpc' = NextLabel(mpc, args)
                   /\ UNCHANGED <<status, child>>
    /\ UNCHANGED <<files, clock, inv, args, cfg, loopi, collection, rs, rpc,
                   globbed, returncode, ret, launched, doneBefore>>

\* a variant that tests aoi_config only
ConfigMissing_AoiOnly(c) == ~c.aoi_config

\* aoi_config == None or utm == None
ConfigMissing(c) == ~c.aoi_config \/ ~c.utm

\* the checks of aoi_config and utm in the "if args.vissat" block
vissat_config ==
    /\ status = "running" /\ mpc = "vissat_config"
    /\ IF ConfigMissing(cfg)
       THEN /\ Halt("exit1")
            /\ UNCHANGED mpc
       ELSE /\ mpc' = NextLabel(mpc, args)
            /\ UNCHANGED <<status, child>>
    /\ UNCHANGED <<fsVars, clock, inv, args, cfg, loopi, working_dir,
                   collection, rs, rpc, globbed, returncode, ret, launched,
                   mkdirs, doneBefore>>

\* input_paths: the files under imagery_dir, then those under rpc_dir when
\* it is configured
input_paths(c) ==
    IF c.rpc_dir THEN c.imagery.img \o c.imagery.rpc ELSE c.imagery.img

\* collection_id_to_files = collate_input_paths(input_paths)
Collate ==
    /\ status = "running" /\ mpc = "collate"
    /\ collection' = collate_input_paths(input_paths(cfg))
    /\ mpc' = NextLabel(mpc, args)
    /\ UNCHANGED <<fsVars, clock, status, inv, args, cfg, loopi, working_dir,
                   rs, rpc, globbed, child, returncode, ret, launched, mkdirs,
                   doneBefore>>

\* the pruning loop; use_rpcs = (config['paths'].get('rpc_dir') != None)
PruneCollection ==
    /\ status = "running" /\ mpc = "prune"
    /\ collection' = Prune(collection, cfg.rpc_dir)
    /\ mpc' = NextLabel(mpc, args)
    /\ loopi' = 1
    /\ UNCHANGED <<fsVars, clock, status, inv, args, cfg, working_dir, rs,
                   rpc, globbed, child, returncode, ret, launched, mkdirs,
                   doneBefore>>

\* main calls run_step(dir, name, cmd_args) for the statement it is at
CallStage ==
    /\ status = "running" /\ rpc = "idle"
    /\ mpc \in StageLabels
    /\ mpc \in LoopLabels => loopi <= Len(collection)
    /\ EnterRunStep(StageDir(mpc, working_dir),
                    StepName(mpc, CurrentRecord),
                    StageCmd(mpc, working_dir, collection, CurrentRecord),
                    TRUE,
                    StageId(mpc, CurrentRecord))
    /\ UNCHANGED <<fsVars, mainVars, doneBefore, status, globbed, child,
                   launched, mkdirs>>

\* run_step has returned: main goes on; after an orthorectify call it sets
\* files['msi']['ortho_img_fpath'] = msi_ortho_img_fpath
StageReturn ==
    /\ status = "running" /\ rpc = "ret"
    /\ mpc \in StageLabels
    /\ rpc' = "idle"
    /\ collection' =
         IF mpc = "orthorectify"
         THEN [collection EXCEPT ![loopi].files =
                  PutFile(@, "msi", "ortho_img_fpath",
                          msi_ortho_img_fpath(working_dir, collection[loopi]))]
         ELSE collection
    /\ IF mpc \in LoopLabels
       THEN /\ loopi' = loopi + 1
            /\ UNCHANGED mpc
       ELSE /\ mpc' = NextLabel(mpc, args)
            /\ loopi' = 1
    /\ UNCHANGED <<fsVars, clock, status, inv, args, cfg, working_dir, rs,
                   globbed, child, returncode, ret, launched, mkdirs,
                   doneBefore>>

\* a fan-out loop has no record left
LoopDone ==
    /\ status = "running" /\ rpc = "idle"
    /\ mpc \in LoopLabels
    /\ loopi > Len(collection)
    /\ mpc' = NextLabel(mpc, args)
    /\ loopi' = 1
    /\ UNCHANGED <<fsVars, clock, status, inv, args, cfg, working_dir,
                   collection, rs, rpc, globbed, child, returncode, ret,
                   launched, mkdirs, doneBefore>>

\* main returns and the interpreter exits with status 0
MainEnd ==
    /\ status = "running" /\ mpc = "end"
    /\ status' = "exit0"
    /\ UNCHANGED <<fsVars, clock, inv, args, cfg, mpc, loopi, working_dir,
                   collection, rs, rpc, globbed, child, returncode, ret,
                   launched, mkdirs, doneBefore>>

Next ==
    \/ Invoke
    \/ Tick
    \/ create_working_dir
    \/ vissat_config
    \/ Collate
    \/ PruneCollection
    \/ CallStage
    \/ StageReturn
    \/ LoopDone
    \/ MainEnd
    \/ RunStepNext

Spec == Init /\ [][Next]_vars

(***************************************************************************)
(* Claims about run_step                                                   *)
(***************************************************************************)

\* the path of the marker of the active call with exit code c, and of its log
ActiveMarker(c) == [dir |-> rs.dir, name |-> rs.name \o <<"exitstatus", CodeStr(c)>>]
ActiveLog == [dir |-> rs.dir, name |-> rs.name \o <<"log">>]
ActiveMarkers == {c \in ExitCodes : ActiveMarker(c) \in files}

\* C1. Idempotent skip: a call of run_step for a (working_dir, step_name)
\* whose code-0 marker exists returns 0, spawns no child and leaves files and
\* directories as they were, whatever the command and abort_on_error.
C1_IdempotentSkip ==
    [][(/\ status = "running" /\ rpc = "check"
        /\ ActiveMarker(0) \in files
        /\ status' = "running")
       => (/\ rpc' = "ret" /\ ret' = 0
           /\ files' = files /\ dirs' = dirs
           /\ launched' = launched /\ child' = "none" /\ mkdirs' = mkdirs)]_vars

\* a call with abort_on_error = False has returned 0 without a Popen, the
\* code-0 marker being there
C1_Witness ==
    /\ status = "running" /\ rpc = "ret" /\ ret = 0
    /\ ~rs.abort
    /\ launched = << >>
    /\ ActiveMarker(0) \in files

\* C3. Stale-state purge: when the command of a step without code-0 marker is
\* spawned, no exit-status marker and no log of that step exists.
C3_PurgedAtSpawn ==
    (status = "running" /\ rpc = "openlog")
        => (ActiveMarkers = {} /\ ActiveLog \notin files)

\* C4. After run_step has executed a command that exited with code c, the
\* only marker of the step is the one of c, and the step counts as succeeded
\* if and only if c = 0.
C4_OnlyMarkerIsExitCode ==
    (status = "running" /\ rpc = "finish")
        => (/\ ActiveMarkers = {returncode}
            /\ (ActiveMarker(0) \in files <=> returncode = 0))

\* the code-0 markers present in a set of files, and all the markers
ZeroMarkers(fs) ==
    {f \in fs : /\ Len(f.name) >= 3
                /\ f.name[Len(f.name) - 1] = "exitstatus"
                /\ f.name[Len(f.name)] = "0"}
AllMarkers(fs) ==
    {f \in fs : /\ Len(f.name) >= 3
                /\ f.name[Len(f.name) - 1] = "exitstatus"
                /\ f.name[Len(f.name)] \in {"0", "1", "3"}}
MarkerStep(f) == [dir |-> f.dir, name |-> SubSeq(f.name, 1, Len(f.name) - 2)]

\* C5. A succeeded marker is permanent: a code-0 marker, once there, stays,
\* is not written again, and no other marker of its step is created.
C5_SucceededMarkerPermanent ==
    [][\A f \in ZeroMarkers(files) :
          /\ f \in files'
          /\ ~(rpc = "touch" /\ rpc' = "finish" /\ ActiveMarker(returncode) = f)
          /\ \A g \in AllMarkers(files') \ AllMarkers(files) :
                MarkerStep(g) # MarkerStep(f)]_vars

(***************************************************************************)
(* Claims about main                                                       *)
(***************************************************************************)

\* C2. Resume after a halt: a stage that completed successfully in an earlier
\* invocation is not spawned again, and a stage that has not is not skipped.
C2_ResumeSkipsCompleted ==
    /\ (status = "running" /\ rpc = "openlog") => rs.stage \notin doneBefore
    /\ (status = "running" /\ rpc = "ret" /\ launched = << >>)
          => rs.stage \in doneBefore

\* C6. Fatal propagation: a non-zero exit code never comes back to main, and
\* when the driver has ended on it, no directory of a later stage has been
\* created and no later stage's command has been spawned in this invocation.
C6_FatalPropagation ==
    /\ (status = "running" /\ rpc = "ret" /\ mpc \in StageLabels) => ret = 0
    /\ (status = "exit1" /\ rpc = "finish") =>
          /\ returncode # 0
          /\ launched # << >>
          /\ launched[Len(launched)].stage = rs.stage
          /\ \A i \in 1..Len(launched) :
                LabelIndex(launched[i].stage[1]) <= LabelIndex(mpc)
          /\ mkdirs \subseteq
                {Dir(working_dir, "")} \cup
                {StageDir(l, working_dir) :
                    l \in {k \in StageLabels : LabelIndex(k) <= LabelIndex(mpc)}}

\* orthorectify of the first record has exited 3 and ended the driver; the
\* directories of compute-ndvi and of the later stages do not exist
C6_Witness ==
    /\ status = "exit1" /\ rpc = "finish" /\ returncode = 3
    /\ mpc = "orthorectify" /\ loopi = 1 /\ inv = 1
    /\ Dir(working_dir, "orthorectify") \in dirs
    /\ Dir(working_dir, "compute-ndvi") \notin dirs
    /\ Dir(working_dir, "crop-and-pansharpen") \notin dirs

\* C7. Stage execution failure: a non-zero exit code ends the driver with
\* exit status 1, the marker of that code and the log being on disk; the
\* driver ends with exit status 0 when it reaches the end of main, every
\* stage it launched having exited 0.
C7_StageFailureExit ==
    /\ [](/\ (status = "exit1" /\ rpc = "finish") =>
                /\ returncode # 0
                /\ ActiveMarker(returncode) \in files
                /\ ActiveLog \in files
          /\ status = "exit0" =>
                /\ mpc = "end"
                /\ \A i \in 1..Len(launched) : launched[i].stage \in doneBefore)
    /\ [][/\ (status = "running" /\ rpc = "finish" /\ returncode # 0
              /\ status' # "killed") => status' = "exit1"
          /\ (status = "running" /\ mpc = "end" /\ status' # "killed")
                => status' = "exit0"]_vars

\* fit-dtm has exited 3 and the driver has ended with status 1
C7_Witness ==
    /\ status = "exit1" /\ rpc = "finish" /\ returncode = 3
    /\ mpc = "fit-dtm"
    /\ ActiveMarker(3) \in files /\ ActiveLog \in files

\* the order of the stage instances for two records with keys k1 and k2
ExpectedOrder(k1, k2) ==
    << <<"generate-dsm">>, <<"fit-dtm">>,
       <<"orthorectify", k1>>, <<"orthorectify", k2>>,
       <<"compute-ndvi">>, <<"get-road-vector">>, <<"segment-by-height">>,
       <<"material-classification">>, <<"roof-geon-extraction">>,
       <<"crop-and-pansharpen", k1>>, <<"crop-and-pansharpen", k2>>,
       <<"texture-mapping">>,
       <<"buildings-to-dsm_DSM">>, <<"buildings-to-dsm_CLS">> >>

\* C8. End-to-end order: with two complete records and no flag, a first
\* invocation in which every command succeeds spawns exactly generate-dsm,
\* fit-dtm, orthorectify per record, compute-ndvi (given both orthorectified
\* paths), get-road-vector, segment-by-height, material-classification,
\* roof-geon-extraction, crop-and-pansharpen per record, texture-mapping,
\* buildings-to-dsm_DSM and buildings-to-dsm_CLS, in this order.
C8_EndToEndOrder ==
    (/\ status = "exit0" /\ inv = 1
     /\ ~args.vissat /\ ~args.run_metrics
     /\ Len(collection) = 2)
    => /\ [i \in 1..Len(launched) |-> launched[i].stage]
            = ExpectedOrder(collection[1].key, collection[2].key)
       /\ launched[5].cmd.paths
            = <<launched[3].cmd.paths[2], launched[4].cmd.paths[2]>>
       /\ launched[3].cmd.paths[2] # launched[4].cmd.paths[2]

\* a first invocation on the two-acquisition imagery has ended with status 0
C8_Witness ==
    /\ status = "exit0" /\ inv = 1
    /\ ~args.vissat /\ ~args.run_metrics
    /\ Len(collection) = 2
    /\ Len(launched) = 14

\* a record that has a pan and an msi bundle, each with image and info and,
\* under the RPC policy, rpc
CompleteRecord(rec, use_rpcs) ==
    /\ {"pan", "msi"} \subseteq DOMAIN rec.files
    /\ \A m \in {"pan", "msi"} :
          {"image", "info"} \cup (IF use_rpcs THEN {"rpc"} ELSE {})
              \subseteq DOMAIN rec.files[m]

KeysOf(coll) == {coll[i].key : i \in 1..Len(coll)}

\* collation and pruning are finished: collection holds the complete records
\* of the input files, and only them
CollationFinished ==
    LET all == collate_input_paths(input_paths(cfg))
    IN  /\ KeysOf(collection) =
              {all[i].key : i \in {j \in 1..Len(all) :
                                      CompleteRecord(all[j], cfg.rpc_dir)}}
        /\ \A i \in 1..Len(collection) :
              CompleteRecord(collection[i], cfg.rpc_dir)

VisSatLabels == {"VisSat", "ply2txt", "txt2las"}

\* C9 as stated. Collation and pruning are finished before the first stage
\* command is launched, for every combination of the flags.
C9_CollationBeforeAnyStage ==
    (status = "running" /\ launched # << >>) => CollationFinished

\* generate-dsm and the statements after it
PipelineLabels ==
    {"generate-dsm", "fit-dtm", "orthorectify", "compute-ndvi",
     "get-road-vector", "segment-by-height", "material-classification",
     "roof-geon-extraction", "crop-and-pansharpen", "texture-mapping",
     "buildings-to-dsm_DSM", "buildings-to-dsm_CLS", "run-metrics", "end"}

\* C9 as amended. Collation and pruning are finished before generate-dsm and
\* every later stage is launched: main comes to generate-dsm with the pruned
\* collection and without having launched any of these stages, the set of
\* records does not change from there on, and every record is complete
\* whenever one of these stages has been launched. The three steps of the
\* VisSat group, which run only with the VisSat flag, are launched before
\* collation.
C9_CollationBeforePipelineStages ==
    /\ []((status = "running" /\ mpc = "generate-dsm" /\ rpc = "idle") =>
             /\ CollationFinished
             /\ \A i \in 1..Len(launched) :
                   launched[i].stage[1] \in VisSatLabels)
    /\ []((status = "running"
           /\ \E i \in 1..Len(launched) :
                 launched[i].stage[1] \notin VisSatLabels) =>
             /\ mpc \in PipelineLabels
             /\ \A i \in 1..Len(collection) :
                   CompleteRecord(collection[i], cfg.rpc_dir))
    /\ []((status = "running"
           /\ \E i \in 1..Len(launched) : launched[i].stage[1] \in VisSatLabels)
             => args.vissat)
    /\ []((status = "running" /\ rpc = "openlog"
           /\ rs.stage[1] \in VisSatLabels) => collection = << >>)
    /\ [][(status = "running" /\ status' = "running" /\ mpc \in PipelineLabels)
             => /\ mpc' \in PipelineLabels
                /\ KeysOf(collection') = KeysOf(collection)]_vars

\* generate-dsm is running on imagery of which pruning has dropped records
C9_Witness ==
    /\ status = "running" /\ rpc = "openlog"
    /\ rs.stage = <<"generate-dsm">>
    /\ cfg.imagery = ImgPartial
    /\ KeysOf(collection) = {KEY_A, KEY_B}

\* C10. Pruning keeps exactly the complete records: after the pruning step a
\* record is present if and only if it has a pan and an msi bundle that each
\* have image and info and, when an RPC directory is configured, rpc; the
\* records kept are unchanged and keep their order; pruning does not end the
\* driver.
C10_PruningKeepsComplete ==
    [][(status = "running" /\ mpc = "prune" /\ status' # "killed")
       => /\ status' = "running"
          /\ mpc' = "generate-dsm"
          /\ KeysOf(collection') =
                {collection[i].key :
                    i \in {j \in 1..Len(collection) :
                              CompleteRecord(collection[j], cfg.rpc_dir)}}
          /\ \A i \in 1..Len(collection') :
                \E j \in 1..Len(collection) : collection[j] = collection'[i]
          /\ \A i, j \in 1..Len(collection') :
                i < j => IndexOf(collection, collection'[i].key)
                           < IndexOf(collection, collection'[j].key)]_vars

\* under the RPC policy pruning has kept A alone: B (no msi rpc), C (pan
\* only) and D (msi without info) are gone, A's incomplete swir did no harm
C10_Witness ==
    /\ status = "running" /\ mpc = "generate-dsm" /\ rpc = "idle"
    /\ cfg.imagery = ImgPartial /\ cfg.rpc_dir
    /\ KeysOf(collection) = {KEY_A}
    /\ "swir" \in DOMAIN collection[1].files
    /\ "info" \notin DOMAIN collection[1].files["swir"]

(***************************************************************************)
(* Claims about collation, configuration and the order of the stages       *)
(***************************************************************************)

\* a bundle that has exactly the roles of S
BundleOf(S) == [r \in S |-> File(ImageryDir, <<r>>)]

\* the records of the input files before pruning
Collated == collate_input_paths(input_paths(cfg))

\* C11. RPC gating: where pruning applies it, ensure_complete_modality is
\* true of a bundle, whatever its roles, exactly when it has image and info
\* and, with require_rpc, rpc; the enforcement is
\* active for a run exactly when an RPC directory is configured: after
\* pruning with an RPC directory every kept pan and msi bundle has rpc, and
\* without one the records whose pan and msi bundles have image and info
\* are all kept.
C11_RpcGating ==
    /\ (status = "running" /\ mpc = "prune") =>
          \A S \in SUBSET {"image", "info", "rpc"}, q \in BOOLEAN :
             ensure_complete_modality(BundleOf(S), q)
                <=> ({"image", "info"} \subseteq S /\ (q => "rpc" \in S))
    /\ (status = "running" /\ mpc = "generate-dsm" /\ rpc = "idle"
        /\ cfg.rpc_dir)
          => \A i \in 1..Len(collection) : \A m \in {"pan", "msi"} :
                {"image", "info", "rpc"} \subseteq DOMAIN collection[i].files[m]
    /\ (status = "running" /\ mpc = "generate-dsm" /\ rpc = "idle"
        /\ ~cfg.rpc_dir)
          => KeysOf(collection) =
                {Collated[i].key :
                    i \in {j \in 1..Len(Collated) :
                              /\ {"pan", "msi"} \subseteq DOMAIN Collated[j].files
                              /\ \A m \in {"pan", "msi"} :
                                    {"image", "info"} \subseteq
                                        DOMAIN Collated[j].files[m]}}

\* with an RPC directory, B, whose msi bundle has image and info but no rpc,
\* has been pruned and A has been kept
C11_Witness ==
    /\ status = "running" /\ mpc = "generate-dsm" /\ rpc = "idle"
    /\ cfg.rpc_dir /\ cfg.imagery = ImgPartial
    /\ \E j \in 1..Len(Collated) :
          /\ Collated[j].key = KEY_B
          /\ DOMAIN Collated[j].files["msi"] = {"image", "info"}
    /\ KEY_B \notin KeysOf(collection)
    /\ KEY_A \in KeysOf(collection)

\* the positions of the input files whose name matches input_re
Matching(paths) ==
    {i \in 1..Len(paths) : input_re_match(paths[i].name).matched}

\* C12. Collation groups by acquisition key: after collation no two records
\* have the same key, the keys are exactly the prefix-trail keys of the
\* matching files (a file that does not match adds none), every file a
\* record holds has the key of the record and lies under its own modality,
\* and every matching .NTF and .TAR file is held, whatever its directory or
\* letter case; the four files of one acquisition give the single key of it
\* with complete pan and msi bundles, and pruning retains it.
C12_CollationGroupsByKey ==
    /\ (status = "running" /\ mpc = "prune") =>
          LET paths == input_paths(cfg)
              held == {[key |-> collection[k].key, modality |-> m,
                        path |-> collection[k].files[m][r]] :
                          <<k, m, r>> \in
                            {t \in (1..Len(collection))
                                     \X {"pan", "msi", "swir"}
                                     \X {"image", "info", "rpc"} :
                                /\ t[2] \in DOMAIN collection[t[1]].files
                                /\ t[3] \in DOMAIN collection[t[1]].files[t[2]]}}
          IN  /\ \A i, j \in 1..Len(collection) :
                    i # j => collection[i].key # collection[j].key
              /\ KeysOf(collection) =
                    {input_re_match(paths[i].name).key : i \in Matching(paths)}
              /\ \A h \in held :
                    /\ input_re_match(h.path.name).key = h.key
                    /\ modality_map(input_re_match(h.path.name).modality)
                          = h.modality
              /\ \A i \in Matching(paths) :
                    input_re_match(paths[i].name).ext \in {"NTF", "TAR"}
                        => \E h \in held : h.path = paths[i]
    /\ (status = "running" /\ mpc = "prune" /\ cfg.imagery = ImgOne) =>
          /\ KeysOf(collection) = {KEY_A} /\ Len(collection) = 1
          /\ DOMAIN collection[1].files = {"pan", "msi"}
          /\ \A m \in {"pan", "msi"} :
                DOMAIN collection[1].files[m] = {"image", "info"}
    /\ (status = "running" /\ mpc = "prune" /\ cfg.imagery = ImgPartial) =>
          KeysOf(collection) = {KEY_A, KEY_B, KEY_C, KEY_D}
    /\ (status = "running" /\ mpc = "generate-dsm" /\ cfg.imagery = ImgOne) =>
          KeysOf(collection) = {KEY_A}

\* the files of one acquisition have been collated into one record, which
\* pruning has kept
C12_Witness ==
    /\ status = "running" /\ mpc = "generate-dsm" /\ rpc = "idle"
    /\ cfg.imagery = ImgOne
    /\ Len(collection) = 1 /\ collection[1].key = KEY_A

\* the record of a collection that has the key
RecordOf(coll, key) == CHOOSE r \in {coll[k] : k \in 1..Len(coll)} : r.key = key

\* C13. Role derivation: after collation every matching file has its
\* (key, modality) bucket; a .NTF file is the image of the bucket, a .TAR
\* file its info, a .RPC file with the GRA_ marker its rpc; a file with
\* another extension, or a .RPC file without the marker, is under no role;
\* a bucket has no role but these three.
C13_RoleDerivation ==
    (status = "running" /\ mpc = "prune") =>
        LET paths == input_paths(cfg)
        IN  \A i \in Matching(paths) :
              LET m == input_re_match(paths[i].name)
                  mod == modality_map(m.modality)
              IN  /\ m.key \in KeysOf(collection)
                  /\ mod \in DOMAIN RecordOf(collection, m.key).files
                  /\ LET bucket == RecordOf(collection, m.key).files[mod]
                     IN  /\ DOMAIN bucket \subseteq {"image", "info", "rpc"}
                         /\ m.ext = "NTF" =>
                               "image" \in DOMAIN bucket
                                  /\ bucket["image"] = paths[i]
                         /\ m.ext = "TAR" =>
                               "info" \in DOMAIN bucket
                                  /\ bucket["info"] = paths[i]
                         /\ (m.ext = "RPC" /\ m.gra) =>
                               "rpc" \in DOMAIN bucket
                                  /\ bucket["rpc"] = paths[i]
                         /\ (m.ext \notin {"NTF", "TAR"}
                             /\ ~(m.ext = "RPC" /\ m.gra)) =>
                               \A r \in DOMAIN bucket : bucket[r] # paths[i]

\* D has an msi bucket made by a .rpc file without the marker and a pan
\* bucket made by a .xml file, both without any role
C13_Witness ==
    /\ status = "running" /\ mpc = "prune"
    /\ cfg.imagery = ImgNone
    /\ KEY_D \in KeysOf(collection)
    /\ DOMAIN RecordOf(collection, KEY_D).files = {"pan", "msi"}
    /\ DOMAIN RecordOf(collection, KEY_D).files["msi"] = {}
    /\ DOMAIN RecordOf(collection, KEY_D).files["pan"] = {}

\* C14. Configuration error: with the VisSat flag and without the AOI
\* configuration path or the UTM zone, the driver ends with exit status 1
\* at the checks of the VisSat block; no command is ever launched and no
\* marker or log is ever written.
C14_ConfigurationError ==
    /\ []((args.vissat /\ (~cfg.aoi_config \/ ~cfg.utm)) =>
             /\ launched = << >>
             /\ files = {}
             /\ rpc = "idle"
             /\ status \in {"none", "running", "exit1", "killed"}
             /\ status = "running" =>
                   mpc \in {"create_working_dir", "vissat_config"}
             /\ status = "exit1" => mpc = "vissat_config")
    /\ [][(/\ args.vissat /\ (~cfg.aoi_config \/ ~cfg.utm)
           /\ status = "running" /\ mpc = "vissat_config"
           /\ status' # "killed") => status' = "exit1"]_vars

\* the UTM zone is missing and the driver has ended with status 1 in its
\* second invocation as well, the working directory being all there is
C14_Witness ==
    /\ args.vissat /\ cfg.aoi_config /\ ~cfg.utm
    /\ status = "exit1" /\ mpc = "vissat_config" /\ inv = 2
    /\ Dir(working_dir, "") \in dirs
    /\ files = {} /\ launched = << >>

\* the stage instances that precede the one being run: <<l, 0>> for a
\* singleton stage, <<l, i>> for the i-th record of a fan-out stage
Preceding ==
    {p \in StageLabels \X (0..Len(collection)) :
        /\ p[1] \in VisSatLabels => args.vissat
        /\ p[1] = "run-metrics" => args.run_metrics
        /\ p[1] \in LoopLabels <=> p[2] > 0
        /\ \/ LabelIndex(p[1]) < LabelIndex(mpc)
           \/ p[1] = mpc /\ p[2] > 0 /\ p[2] < loopi}

\* the code-0 marker of a stage instance
ZeroMarkerOf(l, i) ==
    [dir |-> StageDir(l, working_dir),
     name |-> StepName(l, IF i = 0 THEN NoRecord ELSE collection[i])
                 \o <<"exitstatus", "0">>]

\* C15. Transition rule: while the command of a stage is running, every
\* stage instance that precedes it in the order of this invocation has its
\* code-0 marker on disk; within one invocation the driver never goes back
\* to an earlier stage or an earlier record.
C15_TransitionRule ==
    /\ []((status = "running" /\ child = "running" /\ mpc \in StageLabels)
             => \A p \in Preceding : ZeroMarkerOf(p[1], p[2]) \in files)
    /\ [][(status = "running" /\ status' = "running" /\ inv' = inv) =>
             /\ LabelIndex(mpc') >= LabelIndex(mpc)
             /\ (mpc' = mpc /\ mpc \in LoopLabels) => loopi' >= loopi]_vars

\* the code-0 marker of a step of the VisSat group
VisSatMarker(n) ==
    [dir |-> vissat_workdir, name |-> <<n, "exitstatus", "0">>]

\* the place of a stage instance relative to the VisSat group
VisSatRank(stage) ==
    CASE stage = <<"VisSat">> -> 1
      [] stage = <<"ply2txt">> -> 2
      [] stage = <<"txt2las">> -> 3
      [] OTHER -> 4

\* C16. VisSat stage group: VisSat, ply2txt and txt2las are launched only
\* with the VisSat flag, in this order and before every other stage; while
\* the command of ply2txt runs VisSat has its code-0 marker, while that of
\* txt2las runs VisSat and ply2txt have theirs, and with the flag all three
\* have theirs while the command of generate-dsm or of any later stage runs.
C16_VisSatGroup ==
    /\ \A i \in 1..Len(launched) :
          launched[i].stage[1] \in VisSatLabels => args.vissat
    /\ \A i \in 1..(Len(launched) - 1) :
          VisSatRank(launched[i].stage) <= VisSatRank(launched[i + 1].stage)
    /\ (status = "running" /\ child = "running") =>
          /\ rs.stage = <<"ply2txt">> => VisSatMarker("VisSat") \in files
          /\ rs.stage = <<"txt2las">> =>
                /\ VisSatMarker("VisSat") \in files
                /\ VisSatMarker("ply2txt") \in files
          /\ (args.vissat /\ rs.stage[1] \notin VisSatLabels) =>
                /\ VisSatMarker("VisSat") \in files
                /\ VisSatMarker("ply2txt") \in files
                /\ VisSatMarker("txt2las") \in files

\* generate-dsm runs after the three steps of the group have run in this
\* invocation
C16_Witness ==
    /\ status = "running" /\ child = "running"
    /\ args.vissat /\ rs.stage = <<"generate-dsm">>
    /\ Len(launched) = 4
    /\ launched[1].stage = <<"VisSat">>
    /\ launched[2].stage = <<"ply2txt">>
    /\ launched[3].stage = <<"txt2las">>

\* the stage instances of an invocation other than run-metrics
OtherInstances ==
    {<<l>> : l \in {"generate-dsm", "fit-dtm", "compute-ndvi",
                    "get-road-vector", "segment-by-height",
                    "material-classification", "roof-geon-extraction",
                    "texture-mapping", "buildings-to-dsm_DSM",
                    "buildings-to-dsm_CLS"}
                   \cup (IF args.vissat THEN VisSatLabels ELSE {})}
    \cup {<<l, k>> : l \in {"orthorectify", "crop-and-pansharpen"},
                     k \in KeysOf(collection)}

\* C17. Metrics stage: run-metrics is called and launched only with the
\* metrics flag; when it is called every other stage instance of the
\* invocation has succeeded, now or in an earlier invocation; nothing is
\* launched after it.
C17_MetricsLast ==
    /\ \A i \in 1..Len(launched) :
          launched[i].stage = <<"run-metrics">> =>
              args.run_metrics /\ i = Len(launched)
    /\ (status = "running" /\ rpc # "idle" /\ rs.stage = <<"run-metrics">>) =>
          /\ args.run_metrics
          /\ OtherInstances \subseteq doneBefore
          /\ mpc = "run-metrics"
    /\ (status = "running" /\ mpc = "end" /\ rs.stage # <<"run-metrics">>) =>
          ~args.run_metrics

\* run-metrics runs as the last of the stages launched in a first invocation
C17_Witness ==
    /\ status = "running" /\ child = "running"
    /\ rs.stage = <<"run-metrics">> /\ args.run_metrics
    /\ inv = 1 /\ Len(collection) = 2
    /\ Len(launched) = IF args.vissat THEN 18 ELSE 15

\* C18. Non-aborting mode: a call with abort_on_error = false whose command
\* has exited with a non-zero code c goes on to return c, the process
\* staying alive; when it has returned, the marker of c is on disk.
C18_NonAbortingMode ==
    /\ []((status = "running" /\ rpc = "ret" /\ ~rs.abort
           /\ returncode \in ExitCodes \ {0})
             => /\ ret = returncode
                /\ ActiveMarker(returncode) \in files)
    /\ [][(/\ status = "running" /\ rpc = "finish" /\ ~rs.abort
           /\ returncode # 0 /\ status' # "killed")
          => /\ status' = "running"
             /\ rpc' = "ret"
             /\ ret' = returncode
             /\ files' = files]_vars

\* a call with abort_on_error = false has returned 3
C18_Witness ==
    /\ status = "running" /\ rpc = "ret" /\ ~rs.abort
    /\ returncode = 3 /\ ret = 3
    /\ ActiveMarker(3) \in files

\* C19. Material classification pairing: the material-classification
\* command lists one orthorectified image path and one info path per record
\* kept; the i-th info path is the msi info file of the i-th record, the
\* i-th image path is the orthorectified image of the msi image of that
\* record, and it is the output path given to the orthorectify command of
\* that record.
C19_MaterialPairing ==
    (status = "running" /\ rpc # "idle"
     /\ rs.stage = <<"material-classification">>)
    => /\ Len(rs.cmd.paths) = Len(collection)
       /\ Len(rs.cmd.infos) = Len(collection)
       /\ \A i \in 1..Len(collection) :
             LET img == collection[i].files["msi"]["image"]
             IN  /\ rs.cmd.infos[i] = collection[i].files["msi"]["info"]
                 /\ input_re_match(rs.cmd.infos[i].name).key = collection[i].key
                 /\ input_re_match(img.name).key = collection[i].key
                 /\ rs.cmd.paths[i] =
                       [dir |-> [root |-> working_dir, sub |-> "orthorectify"],
                        name |-> SubSeq(img.name, 1, Len(img.name) - 1)
                                    \o <<"_ortho", "tif">>]
                 /\ \A j \in 1..Len(launched) :
                       launched[j].stage = <<"orthorectify", collection[i].key>>
                           => /\ launched[j].cmd.paths[1] = img
                              /\ launched[j].cmd.paths[2] = rs.cmd.paths[i]
       /\ \A i, j \in 1..Len(collection) :
             i # j => rs.cmd.paths[i] # rs.cmd.paths[j]

\* material-classification runs on two records whose orthorectify steps
\* ran in this invocation
C19_Witness ==
    /\ status = "running" /\ child = "running"
    /\ rs.stage = <<"material-classification">>
    /\ Len(collection) = 2
    /\ Len(rs.cmd.paths) = 2 /\ Len(rs.cmd.infos) = 2
    /\ rs.cmd.infos[1] # rs.cmd.infos[2]
    /\ \E j \in 1..Len(launched) :
          launched[j].stage = <<"orthorectify", collection[2].key>>

\* C20. Empty collation: when pruning has left no record, the driver goes
\* on; it makes no call in the orthorectify and crop-and-pansharpen loops,
\* and a first invocation without flags in which every command succeeds
\* launches each singleton stage once, in the fixed order, and ends with
\* exit status 0.
C20_EmptyCollation ==
    /\ []((status = "running" /\ collection = << >>
           /\ mpc \in {"orthorectify", "crop-and-pansharpen"})
             => rpc = "idle")
    /\ []((collection = << >> /\ inv = 1
           /\ ~args.vissat /\ ~args.run_metrics
           /\ (status = "exit0" \/ (status = "running" /\ mpc = "end")))
             => [i \in 1..Len(launched) |-> launched[i].stage] =
                   << <<"generate-dsm">>, <<"fit-dtm">>, <<"compute-ndvi">>,
                      <<"get-road-vector">>, <<"segment-by-height">>,
                      <<"material-classification">>,
                      <<"roof-geon-extraction">>, <<"texture-mapping">>,
                      <<"buildings-to-dsm_DSM">>, <<"buildings-to-dsm_CLS">> >>)
    /\ []((status = "running" /\ collection = << >> /\ rpc # "idle"
           /\ rs.stage \in {<<"compute-ndvi">>, <<"material-classification">>})
             => rs.cmd.paths = << >> /\ rs.cmd.infos = << >>)
    /\ [][(/\ status = "running"
           /\ \/ mpc = "prune" /\ Prune(collection, cfg.rpc_dir) = << >>
              \/ /\ mpc \in {"orthorectify", "crop-and-pansharpen"}
                 /\ collection = << >>
           /\ status' # "killed")
          => /\ status' = "running"
             /\ mpc' # mpc
             /\ collection' = << >>]_vars

\* a first invocation on imagery without a complete record has ended with
\* exit status 0
C20_Witness ==
    /\ status = "exit0" /\ inv = 1
    /\ cfg.imagery = ImgNone
    /\ ~args.vissat /\ ~args.run_metrics
    /\ collection = << >>
    /\ Len(launched) = 10

(***************************************************************************)
(* Claims about the faults and the files of run_step                       *)
(***************************************************************************)

\* C21. Process-wait fault: when proc.wait(timeout=5) raises, run_step
\* writes no marker and returns no exit code, and the driver ends; the step
\* is left with its log and without any marker, so it does not count as
\* succeeded, and the next call for it removes the log and spawns the
\* command again.
C21_ProcessWaitFault ==
    /\ [](status = "exc_timeout" =>
             /\ rpc = "wait" /\ ret = NoCode /\ returncode = NoCode
             /\ ActiveLog \in files
             /\ ActiveMarkers = {})
    /\ [][(status = "running" /\ rpc = "wait" /\ status' = "exc_timeout")
             => files' = files]_vars
    /\ [][(/\ status = "running" /\ rpc = "check"
           /\ ActiveMarker(0) \notin files /\ status' = "running")
             => rpc' = "rmlog"]_vars
    /\ [][(status = "running" /\ rpc = "rmlog" /\ status' = "running")
             => ActiveLog \notin files']_vars

\* the exit-status markers of a (working_dir, step_name) the calls use
StepMarkers(t) ==
    {c \in ExitCodes :
        [dir |-> t[1], name |-> t[2] \o <<"exitstatus", CodeStr(c)>>]
            \in files}

\* C22. Checkpoint well-formedness: between the calls of run_step, whether
\* the last one returned, ended the process or was killed, every
\* (working_dir, step_name) has at most one exit-status marker, and its log
\* exists whenever it has a marker; a call creates and deletes no file but
\* the log and the markers of its own step.
C22_CheckpointWellFormed ==
    /\ []((status # "running" \/ rpc = "ret") =>
             \A t \in CallTargets :
                /\ Cardinality(StepMarkers(t)) <= 1
                /\ StepMarkers(t) # {} =>
                      [dir |-> t[1], name |-> t[2] \o <<"log">>] \in files)
    /\ [][(files' \ files) \cup (files \ files')
             \subseteq {ActiveLog} \cup {ActiveMarker(c) : c \in ExitCodes}]_vars

====
